---- MODULE Spec2Model ----
(***************************************************************************)
(* A model of the zero_g weightless-neural-network circuit synthesis:      *)
(* WnnCircuit::synthesize, WnnChip::construct / load / predict             *)
(* (src/src/gadgets/wnn.rs), Bits2NumChip::convert_be / convert_le         *)
(* (src/src/gadgets/bits2num.rs), decompose_word (src/src/utils.rs) and    *)
(* the threshold quantization of load_wnn (src/src/io.rs).                 *)
(*                                                                         *)
(* Field elements are modelled by the natural numbers they represent: all  *)
(* values that occur are far below the field modulus.  A cell of the       *)
(* circuit is a record [id, val, tag]: id is the identity of the assigned  *)
(* cell, val the witness value, tag says which computation produced it.    *)
(***************************************************************************)
EXTENDS Integers, Sequences, FiniteSets, TLC

VARIABLES
    cfg,              \* the circuit's fields: image, tensors, permutation, params
    pc,               \* position of synthesize / predict
    chip,             \* the WnnChip built by construct
    loads,            \* how many times the bloom table has been loaded
    lb, li, lj,       \* loop counters b, i, j of the binarization loop
    lc,               \* loop counter c (class) of the lookup loop and later loops
    intensity_cells,  \* BTreeMap (i, j) -> first intensity cell
    bit_cells,        \* Vec of binarized bit cells
    permuted_inputs,  \* Vec of permuted bit cells
    joint_inputs,     \* Vec of composed joint-input cells
    hashes,           \* Vec of hash cells
    responses,        \* Vec<Vec<cell>>: per class, per input
    lookups,          \* log of the bloom_lookup calls made
    result,           \* Vec of score cells returned by predict
    instance,         \* the constrain_instance bindings made by synthesize
    nextCell,         \* allocator of cell identities
    ops,              \* log of the gadget operations performed
    arg, ret          \* input and output of a function under test

vars == <<cfg, pc, chip, loads, lb, li, lj, lc, intensity_cells, bit_cells,
          permuted_inputs, joint_inputs, hashes, responses, lookups, result,
          instance, nextCell, ops, arg, ret>>

pipelineVarsButPc == <<cfg, chip, loads, lb, li, lj, lc, intensity_cells,
                       bit_cells, permuted_inputs, joint_inputs, hashes, responses,
                       lookups, result, instance, nextCell, ops>>

-----------------------------------------------------------------------------
(* Bounds of the model *)

MaxWidth == 2
MaxHeight == 2
MaxBitPlanes == 2
MaxClasses == 2
MaxFilterBits == 2

-----------------------------------------------------------------------------
(* Arithmetic helpers *)

RECURSIVE Pow2(_)
Pow2(n) == IF n = 0 THEN 1 ELSE 2 * Pow2(n - 1)

RECURSIVE MulMod(_, _, _)
\* a * b mod m by doubling, so that no intermediate value leaves 32 bits
MulMod(a, b, m) ==
    IF b = 0 THEN 0
    ELSE (2 * MulMod(a, b \div 2, m) + (IF b % 2 = 1 THEN a % m ELSE 0)) % m

Reverse(s) == [k \in 1..Len(s) |-> s[Len(s) + 1 - k]]

Min(a, b) == IF a < b THEN a ELSE b

RECURSIVE SumFrom(_, _, _)
SumFrom(vals, k, acc) ==
    IF k > Len(vals) THEN acc ELSE SumFrom(vals, k + 1, acc + vals[k])

-----------------------------------------------------------------------------
(* Gadgets *)

\* GreaterThanChip: the boolean witness (v > t) for v, t in [0,255]
GreaterThan(v, t) == IF v > t THEN 1 ELSE 0

ComparatorThresholdRaw(threshold) == threshold

\* let t = F::from((threshold - 1) as u64), for a threshold that is not 0
ComparatorThreshold(threshold) == threshold - 1

BinarizeBitNoSubtract(image_value, threshold) ==
    IF threshold = 0 THEN 1 ELSE GreaterThan(image_value, threshold)

\* predict: the bit of one pixel for one quantized threshold
BinarizeBit(image_value, threshold) ==
    IF threshold = 0 THEN 1
    ELSE GreaterThan(image_value, ComparatorThreshold(threshold))

\* F::CAPACITY of the scalar field of bn256
Capacity == 253

\* the number of bits to_le_bits() yields for a field element
ReprBits == 256

RECURSIVE ConvertBERows(_, _, _, _)
\* the loop of convert_be: the values assigned to the output column by the
\* iterations first..last, each num_val * 2 + bits[i], entered with num_val;
\* the range is run as two consecutive halves, which keeps the evaluation
\* shallow for a num_bit_size at the capacity of the field
ConvertBERows(bits, first, last, num_val) ==
    IF first > last THEN <<>>
    ELSE IF first = last THEN <<num_val * 2 + bits[first]>>
    ELSE LET mid == (first + last) \div 2
             head == ConvertBERows(bits, first, mid, num_val)
         IN  head \o ConvertBERows(bits, mid + 1, last, head[Len(head)])

ConvertBENoDoubling(bits, num_bit_size) ==
    IF Len(bits) # num_bit_size \/ num_bit_size > Capacity
    THEN [ok |-> FALSE, val |-> 0, rows |-> <<>>]
    ELSE [ok |-> TRUE, val |-> SumFrom(bits, 1, 0), rows |-> <<0>>]

ConvertBENoCapacityCheck(bits, num_bit_size) ==
    IF Len(bits) # num_bit_size
    THEN [ok |-> FALSE, val |-> 0, rows |-> <<>>]
    ELSE LET rows == <<0>> \o ConvertBERows(bits, 1, num_bit_size, 0)
         IN  [ok |-> TRUE, val |-> rows[Len(rows)], rows |-> rows]

\* Bits2NumChip::convert_be: the two assertions, then the loop; the result
\* is the last cell assigned
ConvertBE(bits, num_bit_size) ==
    IF Len(bits) # num_bit_size
    THEN [ok |-> FALSE, val |-> 0, rows |-> <<>>]
    ELSE IF num_bit_size > Capacity
    THEN [ok |-> FALSE, val |-> 0, rows |-> <<>>]
    ELSE LET rows == <<0>> \o ConvertBERows(bits, 1, num_bit_size, 0)
         IN  [ok |-> TRUE, val |-> rows[Len(rows)], rows |-> rows]

ConvertLENoReverse(bits, num_bit_size) == ConvertBE(bits, num_bit_size)

\* Bits2NumChip::convert_le
ConvertLE(bits, num_bit_size) == ConvertBE(Reverse(bits), num_bit_size)

\* bit k (from 0) of the canonical representation of word; the words of the
\* model are below 2^31
BitOf(word, k) == IF k >= 31 THEN 0 ELSE (word \div Pow2(k)) % 2

\* word.to_le_bits().into_iter().take(n)
LeBits(word, n) == [k \in 1..Min(n, ReprBits) |-> BitOf(word, k - 1)]

RECURSIVE FoldRev(_, _, _)
\* chunk.iter().rev().fold(F::ZERO, |acc, b| acc * two + b)
FoldRev(chunk, k, acc) ==
    IF k = 0 THEN acc ELSE FoldRev(chunk, k - 1, acc * 2 + chunk[k])

DecomposeWordMsbFirst(word, num_windows, window_num_bits) ==
    LET bits == Reverse(LeBits(word, num_windows * window_num_bits))
    IN  [g \in 1..(Len(bits) \div window_num_bits) |->
            FoldRev([k \in 1..window_num_bits |-> bits[(g - 1) * window_num_bits + k]],
                    window_num_bits, 0)]

\* a decomposition that always yields num_windows windows
DecomposeWordPadded(word, num_windows, window_num_bits) ==
    [g \in 1..num_windows |->
        FoldRev([k \in 1..window_num_bits |-> BitOf(word, (g - 1) * window_num_bits + k - 1)],
                window_num_bits, 0)]

\* decompose_word: the windows, least significant first
DecomposeWord(word, num_windows, window_num_bits) ==
    LET bits == LeBits(word, num_windows * window_num_bits)
    IN  [g \in 1..(Len(bits) \div window_num_bits) |->
            FoldRev([k \in 1..window_num_bits |-> bits[(g - 1) * window_num_bits + k]],
                    window_num_bits, 0)]

\* x^3 mod p
CubeMod(x, p) == MulMod(MulMod(x % p, x % p, p), x % p, p)

HashNoReduction(x, p, l) == CubeMod(x, p)

\* HashChip::hash: x^3 mod p, reduced to l bits
Hash(x, p, l) == CubeMod(x, p) % Pow2(l)

\* the k-th window of window_num_bits bits of word, least significant first
Window(word, k, window_num_bits) ==
    (word \div Pow2(k * window_num_bits)) % Pow2(window_num_bits)

\* BloomFilterChip::bloom_lookup: all n_hashes hashed columns of the row are set
BloomResponse(row, hash, n_hashes, bits_per_hash) ==
    IF \A k \in 0..(n_hashes - 1) : Window(hash, k, bits_per_hash) \in row
    THEN 1 ELSE 0

\* ResponseAccumulatorChip::accumulate_responses: the running sum from 0
AccumulateResponses(vals) == SumFrom(vals, 1, 0)

-----------------------------------------------------------------------------
(* The circuits the model is run on *)

IntensityList == <<0, 1, 127, 128, 255>>

ThresholdList == <<0, 1, 128, 255, 256>>

ImageVariants == {0, 1}

ThresholdPatterns == {"ramp", "mid", "over"}

PermutationKinds == {"id", "rev", "rot"}

\* image: Array2<u8>
ImageAt(variant, x, y) ==
    IntensityList[((2 * variant + 2 * x + y) % Len(IntensityList)) + 1]

\* binarization_thresholds: Array3<u16>
ThresholdAt(pat, x, y, z, w, h, nb) ==
    CASE pat = "ramp" -> ThresholdList[((x + 2 * y + 3 * z) % Len(ThresholdList)) + 1]
      [] pat = "mid" -> 128
      [] pat = "over" -> IF x = w - 1 /\ y = h - 1 /\ z = nb - 1 THEN 257 ELSE 1

\* input_permutation: Array1<u64>, of length n
PermutationOf(kind, n) ==
    CASE kind = "id" -> [k \in 1..n |-> k - 1]
      [] kind = "rev" -> [k \in 1..n |-> n - k]
      [] kind = "rot" -> [k \in 1..n |-> k % n]

\* bloom_filter_arrays: Array3<bool>, an entry given by the set of its true columns
BloomBit(variant, cls, inp, col) ==
    IF variant = 0 THEN (cls + 2 * inp + col) % 3 = 0
    ELSE inp <= col /\ col <= cls + inp

\* WnnCircuitParams without bits_per_filter
HashParams ==
    { [p |-> 29, l |-> 3, n_hashes |-> 1, bits_per_hash |-> 2],
      [p |-> 29, l |-> 2, n_hashes |-> 2, bits_per_hash |-> 1] }

\* WnnCircuit::new
Circuit(w, h, nb, variant, pat, kind, n_bits, n_classes, hp) ==
    LET total == w * h * nb
        n_inputs == total \div n_bits
        entries == Pow2(hp.bits_per_hash)
    IN  [ image |-> [x \in 0..(w - 1) |-> [y \in 0..(h - 1) |-> ImageAt(variant, x, y)]],
          image_shape |-> <<w, h>>,
          binarization_thresholds |->
              [x \in 0..(w - 1) |-> [y \in 0..(h - 1) |-> [z \in 0..(nb - 1) |->
                  ThresholdAt(pat, x, y, z, w, h, nb)]]],
          thresholds_shape |-> <<w, h, nb>>,
          input_permutation |-> PermutationOf(kind, total),
          bloom_filter_arrays |->
              [cls \in 0..(n_classes - 1) |-> [inp \in 0..(n_inputs - 1) |->
                  {col \in 0..(entries - 1) : BloomBit(variant, cls, inp, col)}]],
          bloom_shape |-> <<n_classes, n_inputs, entries>>,
          params |-> [p |-> hp.p, l |-> hp.l, n_hashes |-> hp.n_hashes,
                      bits_per_hash |-> hp.bits_per_hash, bits_per_filter |-> n_bits] ]

Circuits ==
    { Circuit(w, h, nb, variant, pat, kind, n_bits, n_classes, hp) :
        w \in 1..MaxWidth, h \in 1..MaxHeight, nb \in 1..MaxBitPlanes,
        variant \in ImageVariants, pat \in ThresholdPatterns,
        kind \in PermutationKinds, n_bits \in 1..MaxFilterBits,
        n_classes \in 1..MaxClasses, hp \in HashParams }

NoChip == [n_classes |-> 0, n_inputs |-> 0, n_filters |-> 0, flat |-> <<>>]

Cell(id, val, tag) == [id |-> id, val |-> val, tag |-> tag]

Vals(cells) == [k \in 1..Len(cells) |-> cells[k].val]

Ids(cells) == [k \in 1..Len(cells) |-> cells[k].id]

-----------------------------------------------------------------------------
(* WnnCircuit::synthesize *)

\* nothing constructed, assigned or exposed yet
InitPipeline ==
    /\ chip = NoChip
    /\ loads = 0
    /\ lb = 0 /\ li = 0 /\ lj = 0 /\ lc = 0
    /\ intensity_cells = <<>>
    /\ bit_cells = <<>>
    /\ permuted_inputs = <<>>
    /\ joint_inputs = <<>>
    /\ hashes = <<>>
    /\ responses = <<>>
    /\ lookups = <<>>
    /\ result = <<>>
    /\ instance = {}
    /\ nextCell = 0
    /\ ops = <<>>

Init ==
    /\ cfg \in Circuits
    /\ pc = "construct"
    /\ InitPipeline
    /\ arg = <<>>
    /\ ret = <<>>

FlatRowSwapped(arrays, n_classes, n_inputs, r) == arrays[r % n_classes][r \div n_classes]

\* into_shape((n_classes * n_inputs, n_filters)): row r of the row-major flattening
FlatRow(arrays, n_classes, n_inputs, r) == arrays[r \div n_inputs][r % n_inputs]

\* WnnChip::construct
Construct ==
    /\ pc = "construct"
    /\ LET n_classes == cfg.bloom_shape[1]
           n_inputs == cfg.bloom_shape[2]
           n_filters == cfg.bloom_shape[3]
       IN  chip' = [ n_classes |-> n_classes,
                     n_inputs |-> n_inputs,
                     n_filters |-> n_filters,
                     flat |-> [r \in 0..(n_classes * n_inputs - 1) |->
                                 FlatRow(cfg.bloom_filter_arrays, n_classes, n_inputs, r)] ]
    /\ pc' = "load"
    /\ UNCHANGED <<cfg, loads, lb, li, lj, lc, intensity_cells, bit_cells,
                   permuted_inputs, joint_inputs, hashes, responses, lookups,
                   result, instance, nextCell, ops, arg, ret>>

\* a load whose failure is not propagated
LoadIgnoringFailure ==
    /\ pc = "load"
    /\ \E ok \in BOOLEAN :
          IF ok
          THEN /\ loads' = loads + 1
               /\ ops' = Append(ops, <<"load">>)
          ELSE UNCHANGED <<loads, ops>>
    /\ pc' = "binarize"
    /\ UNCHANGED <<cfg, chip, lb, li, lj, lc, intensity_cells, bit_cells,
                   permuted_inputs, joint_inputs, hashes, responses, lookups,
                   result, instance, nextCell, arg, ret>>

\* WnnChip::load, and the ? of synthesize on its result
Load ==
    /\ pc = "load"
    /\ \E ok \in BOOLEAN :
          IF ok
          THEN /\ loads' = loads + 1
               /\ ops' = Append(ops, <<"load">>)
               /\ pc' = "binarize"
          ELSE /\ pc' = "error"
               /\ UNCHANGED <<loads, ops>>
    /\ UNCHANGED <<cfg, chip, lb, li, lj, lc, intensity_cells, bit_cells,
                   permuted_inputs, joint_inputs, hashes, responses, lookups,
                   result, instance, nextCell, arg, ret>>

-----------------------------------------------------------------------------
(* WnnChip::predict *)

Width == cfg.image_shape[1]

Height == cfg.image_shape[2]

BitPlanes == cfg.thresholds_shape[3]

\* the indexing binarization_thresholds[(i, j, b)] is within the tensor's shape
ThresholdInBounds(x, y, z) ==
    /\ x < cfg.thresholds_shape[1]
    /\ y < cfg.thresholds_shape[2]
    /\ z < cfg.thresholds_shape[3]

\* a binarization that creates a fresh intensity cell for every comparison
BinarizeCellsNoCache(x, y, z, threshold, cache, id) ==
    IF threshold = 0
    THEN [ bit |-> Cell(id, BinarizeBit(cfg.image[x][y], threshold), <<"one", z, x, y>>),
           fresh |-> <<>>,
           op |-> <<"assign_constant", 1>> ]
    ELSE [ bit |-> Cell(id + 1, BinarizeBit(cfg.image[x][y], threshold), <<"gt", z, x, y>>),
           fresh |-> <<Cell(id, cfg.image[x][y], <<"intensity", x, y>>)>>,
           op |-> <<"greater_than_witness", ComparatorThreshold(threshold)>> ]

\* a binarization that skips the comparator for a black pixel
BinarizeCellsByPixel(x, y, z, threshold, cache, id) ==
    IF threshold = 0 \/ cfg.image[x][y] = 0
    THEN [ bit |-> Cell(id, BinarizeBit(cfg.image[x][y], threshold), <<"one", z, x, y>>),
           fresh |-> <<>>,
           op |-> <<"assign_constant", BinarizeBit(cfg.image[x][y], threshold)>> ]
    ELSE IF <<x, y>> \notin DOMAIN cache
    THEN [ bit |-> Cell(id + 1, BinarizeBit(cfg.image[x][y], threshold), <<"gt", z, x, y>>),
           fresh |-> <<Cell(id, cfg.image[x][y], <<"intensity", x, y>>)>>,
           op |-> <<"greater_than_witness", ComparatorThreshold(threshold)>> ]
    ELSE [ bit |-> Cell(id, BinarizeBit(cache[<<x, y>>].val, threshold), <<"gt", z, x, y>>),
           fresh |-> <<>>,
           op |-> <<"greater_than_copy", cache[<<x, y>>].id,
                    ComparatorThreshold(threshold)>> ]

\* the cells and the operation of one iteration of the binarization loop:
\* [bit, intensity (a sequence of at most one new cache entry), op]
BinarizeCells(x, y, z, threshold, cache, id) ==
    IF threshold = 0
    THEN [ bit |-> Cell(id, BinarizeBit(cfg.image[x][y], threshold), <<"one", z, x, y>>),
           fresh |-> <<>>,
           op |-> <<"assign_constant", 1>> ]
    ELSE IF <<x, y>> \notin DOMAIN cache
    THEN [ bit |-> Cell(id + 1, BinarizeBit(cfg.image[x][y], threshold), <<"gt", z, x, y>>),
           fresh |-> <<Cell(id, cfg.image[x][y], <<"intensity", x, y>>)>>,
           op |-> <<"greater_than_witness", ComparatorThreshold(threshold)>> ]
    ELSE [ bit |-> Cell(id, BinarizeBit(cache[<<x, y>>].val, threshold), <<"gt", z, x, y>>),
           fresh |-> <<>>,
           op |-> <<"greater_than_copy", cache[<<x, y>>].id,
                    ComparatorThreshold(threshold)>> ]

\* one iteration of  for b { for i { for j { ... } } }
Binarize ==
    /\ pc = "binarize"
    /\ lb < BitPlanes /\ li < Width /\ lj < Height
    /\ IF ~ThresholdInBounds(li, lj, lb)
       THEN /\ pc' = "aborted"
            /\ UNCHANGED <<lb, li, lj, intensity_cells, bit_cells, nextCell, ops>>
       ELSE LET threshold == cfg.binarization_thresholds[li][lj][lb]
                made == BinarizeCells(li, lj, lb, threshold, intensity_cells, nextCell)
                last_j == lj + 1 = Height
                last_i == li + 1 = Width
            IN  IF threshold > 256
                THEN /\ pc' = "aborted"
                     /\ UNCHANGED <<lb, li, lj, intensity_cells, bit_cells, nextCell, ops>>
                ELSE /\ bit_cells' = Append(bit_cells, made.bit)
                     /\ intensity_cells' =
                            IF made.fresh = <<>> THEN intensity_cells
                            ELSE [key \in DOMAIN intensity_cells \cup {<<li, lj>>} |->
                                    IF key = <<li, lj>> THEN made.fresh[1]
                                    ELSE intensity_cells[key]]
                     /\ nextCell' = nextCell + 1 + Len(made.fresh)
                     /\ ops' = Append(ops, made.op)
                     /\ lj' = IF last_j THEN 0 ELSE lj + 1
                     /\ li' = IF last_j THEN (IF last_i THEN 0 ELSE li + 1) ELSE li
                     /\ lb' = IF last_j /\ last_i THEN lb + 1 ELSE lb
                     /\ pc' = "binarize"
    /\ UNCHANGED <<cfg, chip, loads, lc, permuted_inputs, joint_inputs, hashes,
                   responses, lookups, result, instance, arg, ret>>

\* the inverse relabeling: bit k is sent to position permutation[k]
PermutedInverse(cells, permutation) ==
    [k \in 1..Len(permutation) |->
        cells[CHOOSE n \in 1..Len(permutation) : permutation[n] = k - 1]]

\* input_permutation.iter().map(|i| bit_cells[*i as usize].clone()).collect()
Permuted(cells, permutation) ==
    [k \in 1..Len(permutation) |-> cells[permutation[k] + 1]]

\* the binarization loop is over (or empty): permute the input bits
Permute ==
    /\ pc = "binarize"
    /\ ~(lb < BitPlanes /\ li < Width /\ lj < Height)
    /\ IF \E k \in 1..Len(cfg.input_permutation) :
              cfg.input_permutation[k] >= Len(bit_cells)
       THEN /\ pc' = "aborted"
            /\ UNCHANGED permuted_inputs
       ELSE /\ permuted_inputs' = Permuted(bit_cells, cfg.input_permutation)
            /\ pc' = "compose"
    /\ UNCHANGED <<cfg, chip, loads, lb, li, lj, lc, intensity_cells, bit_cells,
                   joint_inputs, hashes, responses, lookups, result, instance,
                   nextCell, ops, arg, ret>>

NumBitSize == cfg.params.bits_per_filter

ChunkFromStart(cells, g, size) == [k \in 1..size |-> cells[k]]

\* chunks_exact(num_bit_size): chunk g (from 0) of the permuted inputs
Chunk(cells, g, size) == [k \in 1..size |-> cells[g * size + k]]

\* one chunk of chunks_exact(num_bit_size).map(convert_le), or, after the last
\* whole chunk, assert_eq!(self.n_inputs, joint_inputs.len())
Compose ==
    /\ pc = "compose"
    /\ LET g == Len(joint_inputs)
       IN  IF NumBitSize = 0
           THEN /\ pc' = "aborted"
                /\ UNCHANGED <<joint_inputs, nextCell, ops>>
           ELSE IF (g + 1) * NumBitSize <= Len(permuted_inputs)
           THEN LET chunk == Chunk(permuted_inputs, g, NumBitSize)
                    joint == ConvertLE(Vals(chunk), NumBitSize)
                IN  IF joint.ok
                    THEN /\ joint_inputs' = Append(joint_inputs,
                                Cell(nextCell, joint.val, <<"joint", g>>))
                         /\ nextCell' = nextCell + 1
                         /\ ops' = Append(ops, <<"convert_le", Ids(chunk)>>)
                         /\ pc' = "compose"
                    ELSE /\ pc' = "aborted"
                         /\ UNCHANGED <<joint_inputs, nextCell, ops>>
           ELSE /\ pc' = IF chip.n_inputs = g THEN "hash" ELSE "aborted"
                /\ UNCHANGED <<joint_inputs, nextCell, ops>>
    /\ UNCHANGED <<cfg, chip, loads, lb, li, lj, lc, intensity_cells, bit_cells,
                   permuted_inputs, hashes, responses, lookups, result, instance,
                   arg, ret>>

\* one element of joint_inputs.into_iter().map(hash), or the end of the map
HashInputs ==
    /\ pc = "hash"
    /\ LET g == Len(hashes)
       IN  IF g < Len(joint_inputs)
           THEN /\ hashes' = Append(hashes,
                       Cell(nextCell, Hash(joint_inputs[g + 1].val, cfg.params.p, cfg.params.l),
                            <<"hash", g>>))
                /\ nextCell' = nextCell + 1
                /\ ops' = Append(ops, <<"hash", joint_inputs[g + 1].id>>)
                /\ pc' = "hash"
                /\ UNCHANGED <<lc, li>>
           ELSE /\ pc' = "lookup"
                /\ lc' = 0 /\ li' = 0
                /\ UNCHANGED <<hashes, nextCell, ops>>
    /\ UNCHANGED <<cfg, chip, loads, lb, lj, intensity_cells, bit_cells,
                   permuted_inputs, joint_inputs, responses, lookups, result,
                   instance, arg, ret>>

\* let array_index = c * hashes.len() + i
ArrayIndex(cls, inp, n_hashes_len, n_classes) == cls * n_hashes_len + inp

\* one iteration of  for c { responses.push(Vec::new()); for (i, hash) { ... } }
Lookup ==
    /\ pc = "lookup"
    /\ IF lc >= chip.n_classes
       THEN /\ pc' = "accumulate"
            /\ lc' = 0
            /\ UNCHANGED <<li, responses, lookups, nextCell, ops>>
       ELSE IF Len(hashes) = 0
       THEN /\ responses' = Append(responses, <<>>)
            /\ lc' = lc + 1
            /\ pc' = "lookup"
            /\ UNCHANGED <<li, lookups, nextCell, ops>>
       ELSE LET array_index == ArrayIndex(lc, li, Len(hashes), chip.n_classes)
                hash == hashes[li + 1]
                response == Cell(nextCell,
                                 BloomResponse(chip.flat[array_index], hash.val,
                                               cfg.params.n_hashes, cfg.params.bits_per_hash),
                                 <<"response", lc, li>>)
                last_i == li + 1 = Len(hashes)
            IN  /\ responses' = IF li = 0 THEN Append(responses, <<response>>)
                                ELSE [responses EXCEPT ![lc + 1] = Append(@, response)]
                /\ lookups' = Append(lookups, [cls |-> lc, inp |-> li, hash |-> hash.id,
                                               row |-> array_index])
                /\ nextCell' = nextCell + 1
                /\ ops' = Append(ops, <<"bloom_lookup", hash.id, array_index>>)
                /\ li' = IF last_i THEN 0 ELSE li + 1
                /\ lc' = IF last_i THEN lc + 1 ELSE lc
                /\ pc' = "lookup"
    /\ UNCHANGED <<cfg, chip, loads, lb, lj, intensity_cells, bit_cells,
                   permuted_inputs, joint_inputs, hashes, result, instance, arg, ret>>

ScoreOfFirstClass(class_responses, cls) ==
    AccumulateResponses(Vals(class_responses[1]))

\* responses.iter().map(accumulate_responses): the score of class cls
ScoreOfClass(class_responses, cls) ==
    AccumulateResponses(Vals(class_responses[cls + 1]))

\* collect(): the scores in the order of the classes
ScoresPush(scores, cell) == Append(scores, cell)

\* one element of responses.iter().map(accumulate_responses), or its end
Accumulate ==
    /\ pc = "accumulate"
    /\ IF lc < Len(responses)
       THEN /\ result' = ScoresPush(result,
                             Cell(nextCell, ScoreOfClass(responses, lc), <<"score", lc>>))
            /\ nextCell' = nextCell + 1
            /\ ops' = Append(ops, <<"accumulate_responses", Ids(responses[lc + 1])>>)
            /\ lc' = lc + 1
            /\ pc' = "accumulate"
       ELSE /\ pc' = "expose"
            /\ lc' = 0
            /\ UNCHANGED <<result, nextCell, ops>>
    /\ UNCHANGED <<cfg, chip, loads, lb, li, lj, intensity_cells, bit_cells,
                   permuted_inputs, joint_inputs, hashes, responses, lookups,
                   instance, arg, ret>>

InstanceRowShifted(k) == k + 1

\* the instance row the k-th returned cell is bound to
InstanceRow(k) == k

\* for i in 0..result.len() { constrain_instance(result[i].cell(), instance_column, i) }
Expose ==
    /\ pc = "expose"
    /\ IF lc < Len(result)
       THEN /\ instance' = instance \cup {[row |-> InstanceRow(lc), cell |-> result[lc + 1].id]}
            /\ ops' = Append(ops, <<"constrain_instance", result[lc + 1].id, InstanceRow(lc)>>)
            /\ lc' = lc + 1
            /\ pc' = "expose"
       ELSE /\ pc' = "done"
            /\ UNCHANGED <<instance, ops, lc>>
    /\ UNCHANGED <<cfg, chip, loads, lb, li, lj, intensity_cells, bit_cells,
                   permuted_inputs, joint_inputs, hashes, responses, lookups,
                   result, nextCell, arg, ret>>

Next ==
    \/ Construct
    \/ Load
    \/ Binarize
    \/ Permute
    \/ Compose
    \/ HashInputs
    \/ Lookup
    \/ Accumulate
    \/ Expose

Spec == Init /\ [][Next]_vars

-----------------------------------------------------------------------------
(* The binarization of one pixel, over the whole range of u8 intensities    *)
(* and of the quantized thresholds that pass assert!(threshold <= 256)      *)

MaxIntensity == 255

MaxThreshold == 256

InitBinarize ==
    /\ arg \in [image_value : 0..MaxIntensity, threshold : 0..MaxThreshold]
    /\ ret = <<>>
    /\ pc = "call"
    /\ cfg = <<>>
    /\ InitPipeline

\* the bit_cell expression of predict, for one pixel and one threshold
BinarizeCall ==
    /\ pc = "call"
    /\ ret' = [bit |-> BinarizeBit(arg.image_value, arg.threshold)]
    /\ pc' = "returned"
    /\ UNCHANGED <<cfg, chip, loads, lb, li, lj, lc, intensity_cells, bit_cells,
                   permuted_inputs, joint_inputs, hashes, responses, lookups,
                   result, instance, nextCell, ops, arg>>

SpecBinarize == InitBinarize /\ [][BinarizeCall]_vars

\* C1: the bit emitted for intensity v and quantized threshold T is 1 exactly
\* when v >= T; T = 0 gives 1 for every intensity, T = 256 gives 0 for every
\* intensity.
C1_BitIsIntensityAtLeastThreshold ==
    pc = "returned" =>
        /\ ret.bit \in {0, 1}
        /\ (ret.bit = 1) <=> (arg.image_value >= arg.threshold)
        /\ (arg.threshold = 0 => ret.bit = 1)
        /\ (arg.threshold = MaxThreshold => ret.bit = 0)
        /\ (arg.threshold >= 1 =>
                ((ret.bit = 1) <=> (arg.image_value > arg.threshold - 1)))

C1_Witness ==
    /\ pc = "returned"
    /\ arg.threshold = 0
    /\ arg.image_value = 0
    /\ ret.bit = 1

-----------------------------------------------------------------------------
(* Bits2NumChip and decompose_word on every bit sequence up to MaxBits      *)

MaxBits == 6

BitSeqs == UNION {[1..n -> {0, 1}] : n \in 0..MaxBits}

InitBits ==
    /\ arg \in [fn : {"convert_be", "convert_le"}, bits : BitSeqs,
                num_bit_size : 0..MaxBits]
    /\ ret = <<>>
    /\ pc = "call"
    /\ cfg = <<>>
    /\ InitPipeline

ConvertBECall ==
    /\ pc = "call"
    /\ arg.fn = "convert_be"
    /\ ret' = ConvertBE(arg.bits, arg.num_bit_size)
    /\ pc' = IF ret'.ok THEN "returned" ELSE "aborted"
    /\ UNCHANGED <<pipelineVarsButPc, arg>>

ConvertLECall ==
    /\ pc = "call"
    /\ arg.fn = "convert_le"
    /\ ret' = ConvertLE(arg.bits, arg.num_bit_size)
    /\ pc' = IF ret'.ok THEN "returned" ELSE "aborted"
    /\ UNCHANGED <<pipelineVarsButPc, arg>>

\* decompose_word(&composed, n, 1) on the value convert_le returned
DecomposeCall ==
    /\ pc = "returned"
    /\ arg.fn = "convert_le"
    /\ ret' = [ret EXCEPT !.rows = DecomposeWord(ret.val, Len(arg.bits), 1)]
    /\ pc' = "decomposed"
    /\ UNCHANGED <<pipelineVarsButPc, arg>>

NextBits == ConvertBECall \/ ConvertLECall \/ DecomposeCall

SpecBits == InitBits /\ [][NextBits]_vars

RECURSIVE WeightedSum(_, _)
\* sum over k of weights[k] * s[k]
WeightedSum(s, weights) ==
    IF s = <<>> THEN 0
    ELSE s[1] * weights[1] + WeightedSum(Tail(s), Tail(weights))

-----------------------------------------------------------------------------
(* The hash under the parameters of tests::PARAMS, on every joint input    *)
(* of bits_per_filter bits                                                  *)

ScenarioP == Pow2(21) - 9

ScenarioL == 20

ScenarioNHashes == 2

ScenarioBitsPerHash == 10

ScenarioBitsPerFilter == 15

InitHash ==
    /\ arg \in [x : 0..(Pow2(ScenarioBitsPerFilter) - 1)]
    /\ ret = <<>>
    /\ pc = "call"
    /\ cfg = <<>>
    /\ InitPipeline

\* hash_chip.hash(hash_input)
HashCall ==
    /\ pc = "call"
    /\ ret' = [hash |-> Hash(arg.x, ScenarioP, ScenarioL)]
    /\ pc' = "returned"
    /\ UNCHANGED <<pipelineVarsButPc, arg>>

SpecHash == InitHash /\ [][HashCall]_vars

-----------------------------------------------------------------------------
(* The full pipeline on the circuit of tests::test                          *)

ScenarioBits ==
    << 1, 0, 1, 0, 0, 0, 1, 0, 0, 0, 0, 1, 0, 0, 0,
       1, 0, 0, 0, 0, 1, 1, 1, 1, 0, 1, 0, 1, 1, 1 >>

\* bloom_filter_arrays of tests::test; a third class, when present, is all false
ScenarioBloom(cls, inp) ==
    CASE cls = 0 /\ inp = 0 -> {585, 254}
      [] cls = 0 /\ inp = 1 -> {296}
      [] cls = 1 /\ inp = 0 -> {585, 254}
      [] cls = 1 /\ inp = 1 -> {296, 254}
      [] OTHER -> {}

ScenarioLayouts ==
    { [w |-> 30, h |-> 1, kind |-> "id", by_threshold |-> FALSE],
      [w |-> 1, h |-> 30, kind |-> "id", by_threshold |-> TRUE],
      [w |-> 6, h |-> 5, kind |-> "rev", by_threshold |-> FALSE] }

\* an image, thresholds and a permutation whose permuted bits are ScenarioBits
ScenarioCircuit(lay, n_classes) ==
    LET total == lay.w * lay.h
        bitAt(x, y) == IF lay.kind = "id" THEN ScenarioBits[x * lay.h + y + 1]
                       ELSE ScenarioBits[total - (x * lay.h + y)]
    IN  [ image |-> [x \in 0..(lay.w - 1) |-> [y \in 0..(lay.h - 1) |->
                        IF lay.by_threshold THEN 100
                        ELSE IF bitAt(x, y) = 1 THEN 200 ELSE 50]],
          image_shape |-> <<lay.w, lay.h>>,
          binarization_thresholds |->
              [x \in 0..(lay.w - 1) |-> [y \in 0..(lay.h - 1) |-> [z \in {0} |->
                  IF lay.by_threshold THEN (IF bitAt(x, y) = 1 THEN 0 ELSE 256)
                  ELSE 200]]],
          thresholds_shape |-> <<lay.w, lay.h, 1>>,
          input_permutation |-> PermutationOf(lay.kind, total),
          bloom_filter_arrays |->
              [cls \in 0..(n_classes - 1) |-> [inp \in 0..1 |-> ScenarioBloom(cls, inp)]],
          bloom_shape |-> <<n_classes, 2, Pow2(ScenarioBitsPerHash)>>,
          params |-> [p |-> ScenarioP, l |-> ScenarioL, n_hashes |-> ScenarioNHashes,
                      bits_per_hash |-> ScenarioBitsPerHash,
                      bits_per_filter |-> ScenarioBitsPerFilter] ]

InitScenarioC ==
    /\ cfg \in {ScenarioCircuit(lay, n_classes) :
                    lay \in ScenarioLayouts, n_classes \in {2, 3}}
    /\ pc = "construct"
    /\ InitPipeline
    /\ arg = <<>>
    /\ ret = <<>>

SpecScenarioC == InitScenarioC /\ [][Next]_vars

HashedColumns(hash) ==
    {Window(hash, k, ScenarioBitsPerHash) : k \in 0..(ScenarioNHashes - 1)}

\* C9: on the circuit of Scenario C the joint inputs are 2117 and 30177, their
\* hashes index the columns {585, 254} and {296, 254}, and the public scores
\* are [1, 2] (followed by 0 for an all-false third class).
C9_ScenarioScores ==
    /\ pc \in {"hash", "lookup", "accumulate", "expose", "done"} =>
          Vals(joint_inputs) = <<2117, 30177>>
    /\ pc \in {"lookup", "accumulate", "expose", "done"} =>
          /\ Len(hashes) = 2
          /\ HashedColumns(hashes[1].val) = {585, 254}
          /\ HashedColumns(hashes[2].val) = {296, 254}
    /\ pc = "done" =>
          /\ Vals(result) = IF cfg.bloom_shape[1] = 2 THEN <<1, 2>> ELSE <<1, 2, 0>>
          /\ \E b0, b1 \in instance :
                /\ b0.row = 0 /\ b0.cell = result[1].id /\ result[1].val = 1
                /\ b1.row = 1 /\ b1.cell = result[2].id /\ result[2].val = 2

C9_Witness ==
    /\ pc = "done"
    /\ cfg.bloom_shape[1] = 2
    /\ Vals(result) = <<1, 2>>
    /\ Cardinality(instance) = 2

-----------------------------------------------------------------------------
(* Properties of the pipeline on the circuits of Spec                       *)

NClasses == cfg.bloom_shape[1]

NInputs == cfg.bloom_shape[2]

\* the number of entries of a sequence of cells whose value is 1
CountTrue(cells) == Cardinality({k \in 1..Len(cells) : cells[k].val = 1})

\* C5: predict returns exactly n_classes score cells, the score of class c at
\* position c, and synthesize binds the score of class c to instance row c;
\* nothing else is bound to the instance column.
C5_ScoresExposedInClassOrder ==
    /\ pc \in {"expose", "done"} =>
          /\ Len(result) = NClasses
          /\ \A c \in 0..(NClasses - 1) :
                /\ result[c + 1].tag = <<"score", c>>
                /\ \A k \in 1..Len(responses[c + 1]) :
                      responses[c + 1][k].tag = <<"response", c, k - 1>>
          /\ instance \subseteq
                {[row |-> c, cell |-> result[c + 1].id] : c \in 0..(NClasses - 1)}
    /\ pc = "done" =>
          instance = {[row |-> c, cell |-> result[c + 1].id] : c \in 0..(NClasses - 1)}
    /\ pc \notin {"expose", "done"} => instance = {}

C5_Witness ==
    /\ pc = "done"
    /\ NClasses = 2
    /\ NInputs >= 2
    /\ Cardinality(instance) = 2
    /\ [row |-> 1, cell |-> result[2].id] \in instance

\* C6: for every class c and input i predict makes exactly one bloom lookup,
\* with the hash of input i and row c * n_inputs + i; that row of the
\* flattened table is bloom_filter_arrays[c][i], so the response is the
\* content of that entry at the hashed columns; the rows used are pairwise
\* distinct and cover [0, n_classes * n_inputs).
C6_LookupRowIsClassInputEntry ==
    /\ pc \in {"lookup", "accumulate", "expose", "done"} =>
          \A n \in 1..Len(lookups) :
              LET look == lookups[n]
              IN  /\ look.cls \in 0..(NClasses - 1)
                  /\ look.inp \in 0..(NInputs - 1)
                  /\ look.row = look.cls * NInputs + look.inp
                  /\ look.hash = hashes[look.inp + 1].id
                  /\ hashes[look.inp + 1].tag = <<"hash", look.inp>>
                  /\ chip.flat[look.row] = cfg.bloom_filter_arrays[look.cls][look.inp]
                  /\ responses[look.cls + 1][look.inp + 1].val =
                        BloomResponse(cfg.bloom_filter_arrays[look.cls][look.inp],
                                      hashes[look.inp + 1].val,
                                      cfg.params.n_hashes, cfg.params.bits_per_hash)
                  /\ \A m \in 1..Len(lookups) : m # n => lookups[m].row # look.row
    /\ pc \in {"accumulate", "expose", "done"} =>
          /\ Len(lookups) = NClasses * NInputs
          /\ \A c \in 0..(NClasses - 1) : \A i \in 0..(NInputs - 1) :
                Cardinality({n \in 1..Len(lookups) :
                                lookups[n].cls = c /\ lookups[n].inp = i}) = 1
          /\ {lookups[n].row : n \in 1..Len(lookups)} = 0..(NClasses * NInputs - 1)

C6_Witness ==
    /\ pc = "done"
    /\ NClasses = 2
    /\ NInputs = 4
    /\ Len(lookups) = 8
    /\ \E n \in 1..Len(lookups) :
          /\ lookups[n].cls = 1 /\ lookups[n].inp = 2 /\ lookups[n].row = 6
          /\ responses[2][3].val = 1
    /\ \E n \in 1..Len(lookups) : responses[lookups[n].cls + 1][lookups[n].inp + 1].val = 0

\* C7: the score of a class is the number of its true responses: 0 for no
\* responses, the length for all-true responses, always within [0, n_inputs].
C7_ScoreIsCountOfTrueResponses ==
    pc \in {"accumulate", "expose", "done"} =>
        \A c \in 0..(Len(result) - 1) :
            /\ \A k \in 1..Len(responses[c + 1]) : responses[c + 1][k].val \in {0, 1}
            /\ Len(responses[c + 1]) = NInputs
            /\ result[c + 1].val = CountTrue(responses[c + 1])
            /\ result[c + 1].val \in 0..NInputs
            /\ (responses[c + 1] = <<>> => result[c + 1].val = 0)
            /\ ((\A k \in 1..Len(responses[c + 1]) : responses[c + 1][k].val = 1)
                    => result[c + 1].val = Len(responses[c + 1]))

C7_Witness ==
    /\ pc = "done"
    /\ \E c \in 0..(Len(result) - 1) :
          /\ Len(responses[c + 1]) >= 2
          /\ \A k \in 1..Len(responses[c + 1]) : responses[c + 1][k].val = 1
          /\ result[c + 1].val = Len(responses[c + 1])
    /\ \E c \in 0..(Len(result) - 1) :
          /\ CountTrue(responses[c + 1]) \notin {0, Len(responses[c + 1])}
          /\ result[c + 1].val = CountTrue(responses[c + 1])

C7_WitnessEmpty ==
    /\ pc = "done"
    /\ NInputs = 0
    /\ Len(result) >= 1
    /\ result[1].val = 0

-----------------------------------------------------------------------------
(* load_wnn: the quantization of the stored thresholds.  A finite f32 is    *)
(* [neg, m, e], the value (-1)^neg * m * 2^e with m = 0 or                  *)
(* 2^23 <= m < 2^24; exponents beyond the range of f32 stand for products   *)
(* that overflow to infinity or fall into the subnormals, where ceil, max   *)
(* and min give the same result.                                            *)

MantissaBits == 24

ScaleFactor == 255

UlpRadius == 2

MaxQuantum == 257

Normal(m) == Pow2(MantissaBits - 1) <= m /\ m < Pow2(MantissaBits)

RECURSIVE FloatBelow(_, _, _)
\* the largest [m, e] with m normal and m * 2^e <= k / 255, by long division:
\* q * 255 + r = k * 2^n
FloatBelow(q, r, n) ==
    IF Normal(q) THEN [m |-> q, e |-> 0 - n]
    ELSE FloatBelow(2 * q + (2 * r) \div ScaleFactor, (2 * r) % ScaleFactor, n + 1)

\* the f32 values within UlpRadius of k / 255 for k in 1..MaxQuantum, the
\* powers of two from 2^-40 to 2^20, zero, and the negatives of all of them
StoredValues ==
    LET below == [k \in 1..MaxQuantum |-> FloatBelow(k \div ScaleFactor, k % ScaleFactor, 0)]
        near == { [m |-> below[k].m + d, e |-> below[k].e] :
                    k \in 1..MaxQuantum, d \in (0 - UlpRadius)..UlpRadius }
        pows == { [m |-> Pow2(MantissaBits - 1), e |-> x - 63] : x \in 0..60 }
        mags == {x \in near : Normal(x.m)} \cup pows \cup {[m |-> 0, e |-> 0]}
    IN  { [neg |-> sgn, m |-> x.m, e |-> x.e] : sgn \in BOOLEAN, x \in mags }

\* [q, r]: 255 * m = q * 2^n + r, for 2 <= n <= 31, in pieces of 12 bits so
\* that no intermediate value leaves 32 bits
Times255(m, n) ==
    LET low == ScaleFactor * (m % 4096)
        hi == ScaleFactor * (m \div 4096) + low \div 4096
        lo == low % 4096
    IN  IF n >= 12
        THEN [q |-> hi \div Pow2(n - 12), r |-> (hi % Pow2(n - 12)) * 4096 + lo]
        ELSE [q |-> hi * Pow2(12 - n) + lo \div Pow2(n), r |-> lo % Pow2(n)]

\* binarization_thresholds * 255.0: the f32 product, rounded to nearest, ties
\* to even
Mul255(x) ==
    IF x.m = 0 THEN x
    ELSE LET sh == IF Times255(x.m, 31).q = 0 THEN 7 ELSE 8
             d == Times255(x.m, sh)
             half == Pow2(sh - 1)
             up == d.r > half \/ (d.r = half /\ d.q % 2 = 1)
             q == IF up THEN d.q + 1 ELSE d.q
         IN  IF q = Pow2(MantissaBits)
             THEN [neg |-> x.neg, m |-> Pow2(MantissaBits - 1), e |-> x.e + sh + 1]
             ELSE [neg |-> x.neg, m |-> q, e |-> x.e + sh]

ClampedFloor(x) ==
    IF x.m = 0 \/ x.neg THEN 0
    ELSE IF x.e >= 0 THEN 256
    ELSE IF x.e <= 0 - MantissaBits THEN 0
    ELSE Min(256, x.m \div Pow2(0 - x.e))

\* x.ceil().max(0.0).min(256.0) as u16
ClampedCeil(x) ==
    IF x.m = 0 \/ x.neg THEN 0
    ELSE IF x.e >= 0 THEN 256
    ELSE IF x.e <= 0 - MantissaBits THEN 1
    ELSE Min(256, (x.m + Pow2(0 - x.e) - 1) \div Pow2(0 - x.e))

\* the quantized threshold load_wnn stores for the value x of the file
Quantize(x) == ClampedCeil(Mul255(x))

InitQuantize ==
    /\ arg \in StoredValues
    /\ ret = <<>>
    /\ pc = "call"
    /\ cfg = <<>>
    /\ InitPipeline

QuantizeCall ==
    /\ pc = "call"
    /\ ret' = [threshold |-> Quantize(arg)]
    /\ pc' = "returned"
    /\ UNCHANGED <<pipelineVarsButPc, arg>>

SpecQuantize == InitQuantize /\ [][QuantizeCall]_vars

IsZero(x) == x.m = 0

IsOne(x) == ~x.neg /\ x.m = Pow2(MantissaBits - 1) /\ x.e = 1 - MantissaBits

\* 0 <= x <= 1
InUnitInterval(x) ==
    \/ IsZero(x)
    \/ ~x.neg /\ x.e < 1 - MantissaBits
    \/ IsOne(x)

IsNegative(x) == x.neg /\ x.m # 0

\* v >= x, for an integer v in [0,255] and an f32 x
IntAtLeast(v, x) ==
    IF x.m = 0 \/ x.neg THEN TRUE
    ELSE IF x.e >= 0 THEN FALSE
    ELSE IF x.e <= 0 - MantissaBits THEN v >= 1
    ELSE v > (x.m - 1) \div Pow2(0 - x.e)

\* v >= 255 * x in exact arithmetic, for an integer v in [0,257]
IntAtLeastExact255(v, x) ==
    IF x.m = 0 \/ x.neg THEN TRUE
    ELSE IF 0 - x.e <= 22 THEN FALSE
    ELSE IF 0 - x.e >= 32 THEN v >= 1
    ELSE LET d == Times255(x.m, 0 - x.e)
         IN  v > d.q \/ (v = d.q /\ d.r = 0)

\* clamp(ceil(255 * x), 0, 256) in exact arithmetic
ExactClampedCeil255(x) ==
    IF x.m = 0 \/ x.neg THEN 0
    ELSE IF 0 - x.e <= 22 THEN 256
    ELSE IF 0 - x.e >= 32 THEN 1
    ELSE LET d == Times255(x.m, 0 - x.e)
         IN  Min(256, d.q + (IF d.r > 0 THEN 1 ELSE 0))

\* the boundary cases of C10, which hold for the exact and the f32 product
QuantizeBoundaries ==
    /\ ret.threshold \in 0..256
    /\ (IsZero(arg) => ret.threshold = 0)
    /\ (IsOne(arg) => ret.threshold = 255)
    /\ (InUnitInterval(arg) => ret.threshold \in 0..255)
    /\ (IsNegative(arg) => ret.threshold = 0)
    /\ (~IntAtLeastExact255(256, arg) => ret.threshold = 256)

\* C10 as stated, 255 * s being the product of the real numbers.
C10_QuantizeIsExactCeil ==
    pc = "returned" =>
        /\ ret.threshold = ExactClampedCeil255(arg)
        /\ QuantizeBoundaries
        /\ \A v \in 0..255 : IntAtLeastExact255(v, arg) <=> (v >= ret.threshold)

\* C10 amended: with p the f32 product 255 * s that load_wnn computes, the
\* threshold is clamp(ceil(p), 0, 256): 0 for 0.0, 255 for 1.0, within
\* [0,255] for s in [0,1], 0 for negative s, 256 when 255 * s > 256; and an
\* integer v in [0,255] has v >= p exactly when v >= threshold.
C10_QuantizeIsCeilOfF32Product ==
    pc = "returned" =>
        /\ QuantizeBoundaries
        /\ (~IntAtLeast(256, Mul255(arg)) => ret.threshold = 256)
        /\ LET product == Mul255(arg)
           IN  \A v \in 0..255 : IntAtLeast(v, product) <=> (v >= ret.threshold)
        /\ ret.threshold >= ExactClampedCeil255(arg) - 1
        /\ ret.threshold <= ExactClampedCeil255(arg)

\* the f32 nearest to 1/255 lies above it: the product rounds to 1.0
C10_Witness ==
    /\ pc = "returned"
    /\ arg = [neg |-> FALSE, m |-> 8421505, e |-> -31]
    /\ ret.threshold = 1
    /\ ExactClampedCeil255(arg) = 2

-----------------------------------------------------------------------------
(* Properties of the binarization loop of predict                           *)

\* the position in bit_cells of the bit of plane z and pixel (x, y)
BitPosition(x, y, z) == z * Width * Height + x * Height + y

\* the plane and the pixel of the bit at position k (from 0) of bit_cells
PlaneOf(k) == k \div (Width * Height)

FirstIndexOf(k) == (k % (Width * Height)) \div Height

SecondIndexOf(k) == k % Height

ThresholdOfBit(k) ==
    cfg.binarization_thresholds[FirstIndexOf(k)][SecondIndexOf(k)][PlaneOf(k)]

\* the operation that produced the bit at position k: the load comes first
OpOfBit(k) == ops[k + 2]

ComparatorOps == {"greater_than_witness", "greater_than_copy"}

\* the threshold argument of a comparator call
ComparatorArg(op) == IF op[1] = "greater_than_witness" THEN op[2] ELSE op[3]

\* the loop stopped on assert!(threshold <= 256) at the entry (li, lj, lb)
AbortedOnThreshold ==
    /\ pc = "aborted"
    /\ lb < BitPlanes /\ li < Width /\ lj < Height
    /\ ThresholdInBounds(li, lj, lb)
    /\ cfg.binarization_thresholds[li][lj][lb] > 256

\* C11: every call of the comparator passes t = threshold - 1 within
\* [0,255]; an entry with threshold 0 gets the constant one and no comparator
\* call (so the subtraction never goes below 0); an entry above 256 stops
\* predict before any operation is issued for it.
C11_ComparatorThresholdInRange ==
    /\ \A n \in 1..Len(ops) :
          ops[n][1] \in ComparatorOps => ComparatorArg(ops[n]) \in 0..255
    /\ Len(bit_cells) > 0 => Len(ops) >= 1 + Len(bit_cells)
    /\ \A k \in 0..(Len(bit_cells) - 1) :
          LET threshold == ThresholdOfBit(k)
          IN  /\ threshold <= 256
              /\ IF threshold = 0
                 THEN OpOfBit(k) = <<"assign_constant", 1>>
                 ELSE /\ OpOfBit(k)[1] \in ComparatorOps
                      /\ ComparatorArg(OpOfBit(k)) = threshold - 1
    /\ AbortedOnThreshold =>
          /\ Len(bit_cells) = BitPosition(li, lj, lb)
          /\ Len(ops) = 1 + Len(bit_cells)

\* one pixel compared against threshold 1 (t = 0) and then 256 (t = 255),
\* in a run that also met a threshold 0
C11_Witness ==
    /\ pc = "done"
    /\ \E n \in 1..Len(ops) : ops[n] = <<"assign_constant", 1>>
    /\ \E n, m \in 1..Len(ops) :
          /\ ops[n] = <<"greater_than_witness", 0>>
          /\ ops[m][1] = "greater_than_copy"
          /\ ops[m][3] = 255

\* a tensor with an entry above 256 stops predict at that entry
C11_WitnessAbort ==
    /\ AbortedOnThreshold
    /\ Len(bit_cells) >= 1

-----------------------------------------------------------------------------
(* The order of load and predict in synthesize                              *)

\* the stages of predict and what follows it
PredictStages ==
    {"binarize", "compose", "hash", "lookup", "accumulate", "expose", "done", "aborted"}

LoadOps == {n \in 1..Len(ops) : ops[n] = <<"load">>}

LookupOps == {n \in 1..Len(ops) : ops[n][1] = "bloom_lookup"}

\* nothing has been assigned, looked up or exposed
NothingAssigned ==
    /\ nextCell = 0
    /\ bit_cells = <<>> /\ intensity_cells = <<>>
    /\ lookups = <<>> /\ result = <<>> /\ instance = {}

LoadedOnceBeforePredict ==
    /\ loads \in {0, 1}
    /\ Cardinality(LoadOps) = loads
    /\ pc \in PredictStages => loads = 1 /\ ops[1] = <<"load">>
    /\ pc \notin PredictStages => NothingAssigned
    /\ \A n \in LookupOps : \E m \in LoadOps : m < n
    /\ Len(lookups) = Cardinality(LookupOps)
    /\ pc = "error" => loads = 0 /\ ops = <<>>

\* a step of synthesize: never taken after a failed load, and the table is
\* loaded only by the step between construct and predict
LoadStep ==
    /\ pc # "error"
    /\ loads' # loads => pc = "load" /\ loads = 0 /\ pc' = "binarize"
    /\ pc' \in PredictStages /\ pc \notin PredictStages => pc = "load" /\ loads' = 1

\* C12: in every synthesis the table is loaded exactly once, the load is the
\* first operation and precedes predict and every bloom lookup; after a
\* failed load nothing is assigned and synthesize takes no further step.
C12_LoadOnceBeforeLookup == []LoadedOnceBeforePredict /\ [][LoadStep]_vars

C12_Witness ==
    /\ pc = "done"
    /\ loads = 1
    /\ Cardinality(LoadOps) = 1
    /\ Cardinality(LookupOps) >= 2

C12_WitnessFailedLoad == pc = "error" /\ NothingAssigned

-----------------------------------------------------------------------------
(* Circuits whose image, threshold tensor, bloom tensor and permutation do  *)
(* not fit together.  WnnCircuit::new and WnnChip::construct take the four  *)
(* arrays as they are given.                                                *)

MismatchKinds ==
    { "image_larger", "image_smaller", "permutation_short", "permutation_long",
      "permutation_repeat", "permutation_out_of_range" }

\* a circuit of Circuits with one of its arrays replaced
MismatchedCircuit(w, h, nb, variant, kind, n_bits, n_classes, hp, mis) ==
    LET c == Circuit(w, h, nb, variant, "ramp", kind, n_bits, n_classes, hp)
        total == w * h * nb
    IN  CASE mis = "image_larger" ->
                [c EXCEPT !.image = [x \in 0..w |-> [y \in 0..(h - 1) |->
                                        ImageAt(variant, x, y)]],
                          !.image_shape = <<w + 1, h>>]
          [] mis = "image_smaller" ->
                [c EXCEPT !.binarization_thresholds =
                              [x \in 0..w |-> [y \in 0..(h - 1) |-> [z \in 0..(nb - 1) |->
                                  ThresholdAt("ramp", x, y, z, w + 1, h, nb)]]],
                          !.thresholds_shape = <<w + 1, h, nb>>]
          [] mis = "permutation_short" ->
                LET short == IF total >= n_bits THEN total - n_bits ELSE 0
                    n_inputs == short \div n_bits
                IN  [c EXCEPT !.input_permutation = PermutationOf("id", short),
                              !.bloom_filter_arrays =
                                  [cls \in 0..(n_classes - 1) |-> [inp \in 0..(n_inputs - 1) |->
                                      c.bloom_filter_arrays[cls][inp]]],
                              !.bloom_shape = <<n_classes, n_inputs, c.bloom_shape[3]>>]
          [] mis = "permutation_long" ->
                [c EXCEPT !.input_permutation = Append(c.input_permutation, 0)]
          [] mis = "permutation_repeat" ->
                [c EXCEPT !.input_permutation = [k \in 1..total |-> 0]]
          [] mis = "permutation_out_of_range" ->
                [c EXCEPT !.input_permutation = [c.input_permutation EXCEPT ![1] = total]]

MismatchedCircuits ==
    { MismatchedCircuit(w, h, nb, variant, kind, n_bits, n_classes, hp, mis) :
        w \in 1..MaxWidth, h \in 1..MaxHeight, nb \in 1..MaxBitPlanes,
        variant \in {0}, kind \in PermutationKinds, n_bits \in 1..MaxFilterBits,
        n_classes \in 1..MaxClasses, hp \in HashParams, mis \in MismatchKinds }

InitMismatch ==
    /\ cfg \in MismatchedCircuits
    /\ pc = "construct"
    /\ InitPipeline
    /\ arg = <<>>
    /\ ret = <<>>

SpecMismatch == InitMismatch /\ [][Next]_vars

\* the number of bits predict produces for the image and the tensor of c
TotalBits(c) == c.image_shape[1] * c.image_shape[2] * c.thresholds_shape[3]

IsBijection(permutation, n) ==
    /\ Len(permutation) = n
    /\ \A k \in 1..Len(permutation) : permutation[k] \in 0..(n - 1)
    /\ \A k, m \in 1..Len(permutation) : k # m => permutation[k] # permutation[m]

Mismatched(c) ==
    \/ c.image_shape # <<c.thresholds_shape[1], c.thresholds_shape[2]>>
    \/ Len(c.input_permutation) # TotalBits(c)
    \/ ~IsBijection(c.input_permutation, TotalBits(c))

\* C13 as stated: a circuit with a shape, length or permutation mismatch
\* fails before predict assigns any witness and never yields scores.
C13_MismatchFailsAtConstruction ==
    Mismatched(cfg) =>
        /\ nextCell = 0
        /\ bit_cells = <<>>
        /\ result = <<>>
        /\ pc \notin {"expose", "done"}

\* a permutation with a repeated index, of the right length, runs to
\* completion and its scores are exposed
C13_RepeatedIndexYieldsScores ==
    /\ pc = "done"
    /\ Len(cfg.input_permutation) = TotalBits(cfg)
    /\ cfg.image_shape = <<cfg.thresholds_shape[1], cfg.thresholds_shape[2]>>
    /\ \E k, m \in 1..Len(cfg.input_permutation) :
          k # m /\ cfg.input_permutation[k] = cfg.input_permutation[m]
    /\ Len(result) >= 1
    /\ Cardinality(instance) = Len(result)

\* an image smaller than the threshold tensor runs to completion
C13_SmallerImageYieldsScores ==
    /\ pc = "done"
    /\ cfg.image_shape[1] < cfg.thresholds_shape[1]
    /\ Len(result) >= 1

\* a permutation shorter than the bit count runs to completion
C13_ShortPermutationYieldsScores ==
    /\ pc = "done"
    /\ Len(cfg.input_permutation) < TotalBits(cfg)
    /\ Len(joint_inputs) >= 1
    /\ Len(result) >= 1

\* an out-of-range index and an image larger than the tensor stop predict,
\* after it has assigned witnesses
C13_LateAbort ==
    /\ pc = "aborted"
    /\ Mismatched(cfg)
    /\ nextCell > 0

-----------------------------------------------------------------------------
(* convert_be and convert_le at and beyond the capacity of the field: the   *)
(* long inputs are all-zero, so that the composed value stays small         *)

ZeroBits(n) == [k \in 1..n |-> 0]

WideBitSeqs == BitSeqs \cup {ZeroBits(Capacity), ZeroBits(Capacity + 1)}

WideBitSizes == (0..MaxBits) \cup {Capacity, Capacity + 1}

InitConvert ==
    /\ arg \in [fn : {"convert_be", "convert_le"}, bits : WideBitSeqs,
                num_bit_size : WideBitSizes]
    /\ ret = <<>>
    /\ pc = "call"
    /\ cfg = <<>>
    /\ InitPipeline

NextConvert == ConvertBECall \/ ConvertLECall

SpecConvert == InitConvert /\ [][NextConvert]_vars

C14_WitnessAtCapacity ==
    /\ pc = "returned"
    /\ arg.num_bit_size = Capacity
    /\ Len(ret.rows) = Capacity + 1

\* fewer bits than configured: aborted
C14_WitnessWrongLength ==
    /\ pc = "aborted"
    /\ Len(arg.bits) < arg.num_bit_size
    /\ arg.num_bit_size <= MaxBits

-----------------------------------------------------------------------------
(* The operations of synthesize as a function of the model and of the       *)
(* shape of the image                                                       *)

\* the circuit without the pixel values of its image
ModelOf(c) == [c EXCEPT !.image = <<>>]

IsPrefix(s, t) == Len(s) <= Len(t) /\ \A k \in 1..Len(s) : s[k] = t[k]

RECURSIVE Flatten(_)
Flatten(seqs) == IF seqs = <<>> THEN <<>> ELSE Head(seqs) \o Flatten(Tail(seqs))

\* the sequence with the elements f[1], ..., f[n], each evaluated once
Seq1(f, n) == SubSeq(f, 1, n)

\* m is a circuit without pixel values; the entries of the loop nest are
\* numbered from 1 in the order b, i, j
OpsOfModel(m) ==
    LET w == m.image_shape[1]
        h == m.image_shape[2]
        planes == m.thresholds_shape[3]
        entries == planes * w * h
        T == Seq1([k \in 1..entries |->
                     m.binarization_thresholds[((k - 1) % (w * h)) \div h][(k - 1) % h]
                                              [(k - 1) \div (w * h)]], entries)
        same(n, k) == (n - 1) % (w * h) = (k - 1) % (w * h)
        \* the entries that run: those before the first threshold above 256
        run == IF \E k \in 1..entries : T[k] > 256
               THEN (CHOOSE k \in 1..entries :
                        T[k] > 256 /\ \A n \in 1..(k - 1) : T[n] <= 256) - 1
               ELSE entries
        \* the entry that creates the intensity cell of its pixel
        first == Seq1([k \in 1..entries |->
                         T[k] # 0 /\ \A n \in 1..(k - 1) : same(n, k) => T[n] = 0], entries)
        \* the intensity cells created before entry k
        fresh == Seq1([k \in 1..(entries + 1) |->
                         Cardinality({n \in 1..(k - 1) : first[n]})], entries + 1)
        bit == Seq1([k \in 1..entries |->
                       (k - 1) + fresh[k] + (IF first[k] THEN 1 ELSE 0)], entries)
        intensity(k) ==
            LET n == CHOOSE n \in 1..k : same(n, k) /\ first[n]
            IN  (n - 1) + fresh[n]
        binarize == [k \in 1..run |->
                        IF T[k] = 0 THEN <<"assign_constant", 1>>
                        ELSE IF first[k]
                        THEN <<"greater_than_witness", T[k] - 1>>
                        ELSE <<"greater_than_copy", intensity(k), T[k] - 1>>]
        n_bits == m.params.bits_per_filter
        groups == Len(m.input_permutation) \div n_bits
        classes == m.bloom_shape[1]
        base == entries + fresh[entries + 1]
        joint(g) == base + g
        hash(g) == base + groups + g
        response(c, g) == base + 2 * groups + c * groups + g
        score(c) == base + 2 * groups + classes * groups + c
        compose == [g \in 1..groups |->
                       <<"convert_le", [n \in 1..n_bits |->
                            bit[m.input_permutation[(g - 1) * n_bits + n] + 1]]>>]
        hashing == [g \in 1..groups |-> <<"hash", joint(g - 1)>>]
        lookup == [n \in 1..(classes * groups) |->
                      <<"bloom_lookup", hash((n - 1) % groups), n - 1>>]
        accumulate == [c \in 1..classes |->
                          <<"accumulate_responses",
                            [g \in 1..groups |-> response(c - 1, g - 1)]>>]
        expose == [c \in 1..classes |-> <<"constrain_instance", score(c - 1), c - 1>>]
    IN  IF run < entries THEN <<<<"load">>>> \o binarize
        ELSE Flatten(<< <<<<"load">>>>, binarize, compose, hashing, lookup,
                        accumulate, expose >>)

\* models of Circuits, each with every image of its shape
ImageCircuits ==
    { [Circuit(w, h, nb, variant, pat, kind, n_bits, n_classes, hp) EXCEPT
          !.image = [x \in 0..(w - 1) |-> [y \in 0..(h - 1) |-> ImageAt(pixels, x, y)]]] :
        w \in 1..MaxWidth, h \in 1..MaxHeight, nb \in 1..MaxBitPlanes,
        variant \in {0}, pat \in ThresholdPatterns,
        kind \in PermutationKinds, n_bits \in 1..MaxFilterBits,
        n_classes \in {MaxClasses},
        hp \in {[p |-> 29, l |-> 3, n_hashes |-> 1, bits_per_hash |-> 2]},
        pixels \in ImageVariants }

InitImages ==
    /\ cfg \in ImageCircuits
    /\ pc = "construct"
    /\ InitPipeline
    /\ arg = <<>>
    /\ ret = <<>>

SpecImages == InitImages /\ [][Next]_vars

\* the bits predict would assign for the image of the other variant
BitsOfImage(variant) ==
    [k \in 1..Len(bit_cells) |->
        BinarizeBit(ImageAt(variant, FirstIndexOf(k - 1), SecondIndexOf(k - 1)),
                    ThresholdOfBit(k - 1))]

\* C15: at every point of a synthesis the operations issued so far (kinds,
\* order, cells, constants, rows) are the beginning of a sequence fixed by
\* the model and the shape of the image; a finished or aborted run has issued
\* exactly that sequence, whatever the pixel values.
C15_OpsIndependentOfPixels ==
    /\ IsPrefix(ops, OpsOfModel(ModelOf(cfg)))
    /\ pc \in {"done", "aborted"} => ops = OpsOfModel(ModelOf(cfg))

\* a finished run whose bits differ from those of the other image of the
\* same shape, and whose model has a zero and a non-zero threshold
C15_Witness ==
    /\ pc = "done"
    /\ ops = OpsOfModel(ModelOf(cfg))
    /\ \E variant \in ImageVariants :
          /\ Vals(bit_cells) # BitsOfImage(variant)
          /\ [cfg EXCEPT !.image = [x \in 0..(Width - 1) |-> [y \in 0..(Height - 1) |->
                                       ImageAt(variant, x, y)]]] \in ImageCircuits
    /\ \E n \in 1..Len(ops) : ops[n] = <<"assign_constant", 1>>
    /\ \E n \in 1..Len(ops) : ops[n][1] = "greater_than_copy"

-----------------------------------------------------------------------------
(* load_wnn: the attributes of the file and the shapes of its datasets      *)

MaxNumInputs == 5

MaxBitsPerInput == 2

MaxFilterInputs == 3

MaxSide == 2

\* (num_inputs as f32).sqrt() as usize, exact for these small values
FloorSqrt(n) == CHOOSE r \in 0..n : r * r <= n /\ (r + 1) * (r + 1) > n

\* the lengths a first or second dimension of a stored dataset may have
DatasetLengths == 0..(MaxNumInputs * MaxBitsPerInput)

\* a file: its attributes and the shapes of its three datasets
WnnFiles ==
    [ num_classes : {2},
      num_inputs : 1..MaxNumInputs,
      bits_per_input : 1..MaxBitsPerInput,
      num_filter_inputs : 1..MaxFilterInputs,
      num_filter_entries : {4},
      bloom_filters : {<<2, n, 4>> : n \in DatasetLengths},
      binarization_thresholds :
          {<<a, b, c>> : a \in 0..MaxSide, b \in 0..MaxSide, c \in 1..MaxBitsPerInput},
      input_order : DatasetLengths ]

\* the three shape assertions of load_wnn
BloomShapeExpected(f) ==
    <<f.num_classes, (f.num_inputs * f.bits_per_input) \div f.num_filter_inputs,
      f.num_filter_entries>>

ThresholdsShapeExpected(f) ==
    <<FloorSqrt(f.num_inputs), FloorSqrt(f.num_inputs), f.bits_per_input>>

InputOrderShapeExpected(f) == f.num_inputs * f.bits_per_input

Accepted(f) ==
    /\ f.bloom_filters = BloomShapeExpected(f)
    /\ f.binarization_thresholds = ThresholdsShapeExpected(f)
    /\ f.input_order = InputOrderShapeExpected(f)

InitLoadWnn ==
    /\ arg \in WnnFiles
    /\ ret = <<>>
    /\ pc = "call"
    /\ cfg = <<>>
    /\ InitPipeline

\* load_wnn: the shapes of the Wnn it returns, or a failed assertion
LoadWnn ==
    /\ pc = "call"
    /\ IF Accepted(arg)
       THEN /\ ret' = [ bloom_shape |-> arg.bloom_filters,
                        thresholds_shape |-> arg.binarization_thresholds,
                        permutation_length |-> arg.input_order,
                        num_filter_inputs |-> arg.num_filter_inputs ]
            /\ pc' = "loaded"
       ELSE /\ ret' = <<>>
            /\ pc' = "aborted"
    /\ UNCHANGED <<pipelineVarsButPc, arg>>

SpecLoadWnn == InitLoadWnn /\ [][LoadWnn]_vars

\* width * height * bitsPerInput of the loaded threshold tensor
LoadedBitCount ==
    ret.thresholds_shape[1] * ret.thresholds_shape[2] * ret.thresholds_shape[3]

IsSquare(n) == FloorSqrt(n) * FloorSqrt(n) = n

\* C16 as stated: every bundle load_wnn accepts has a permutation as long as
\* width * height * bitsPerInput of its threshold tensor, and bloom inputs
\* times num_filter_inputs equal to that bit count.
C16_LoadedShapesAgree ==
    pc = "loaded" =>
        /\ ret.permutation_length = LoadedBitCount
        /\ ret.bloom_shape[2] * ret.num_filter_inputs = LoadedBitCount

\* what the assertions do give: the two equalities for a num_inputs that is
\* a perfect square and a num_filter_inputs that divides the bit count
C16_LoadedShapesAgreeForSquares ==
    pc = "loaded" =>
        /\ ret.permutation_length = arg.num_inputs * arg.bits_per_input
        /\ ret.thresholds_shape[1] = ret.thresholds_shape[2]
        /\ IsSquare(arg.num_inputs) => ret.permutation_length = LoadedBitCount
        /\ (IsSquare(arg.num_inputs)
              /\ (arg.num_inputs * arg.bits_per_input) % arg.num_filter_inputs = 0)
             => ret.bloom_shape[2] * ret.num_filter_inputs = LoadedBitCount

\* num_inputs = 5 is accepted with a 2 x 2 threshold tensor
C16_NonSquareAccepted ==
    /\ pc = "loaded"
    /\ arg.num_inputs = 5
    /\ arg.bits_per_input = 1
    /\ ret.thresholds_shape = <<2, 2, 1>>
    /\ ret.permutation_length = 5

\* 4 inputs of 1 bit in filters of 3 inputs: one filter, one bit left over
C16_RemainderAccepted ==
    /\ pc = "loaded"
    /\ arg.num_inputs = 4
    /\ arg.bits_per_input = 1
    /\ arg.num_filter_inputs = 3
    /\ ret.bloom_shape[2] = 1
    /\ LoadedBitCount = 4

-----------------------------------------------------------------------------
(* Circuits whose bit count the filter size may or may not divide: the      *)
(* bloom tensor has (width * height * B) / n_bits inputs, the quotient      *)
(* that load_wnn expects                                                    *)

ChunkCircuits ==
    { Circuit(w, h, nb, variant, pat, kind, n_bits, n_classes, hp) :
        w \in 1..(MaxWidth + 1), h \in 1..MaxHeight, nb \in 1..MaxBitPlanes,
        variant \in {1}, pat \in {"ramp"}, kind \in PermutationKinds,
        n_bits \in 1..(MaxFilterBits + 1), n_classes \in 1..MaxClasses,
        hp \in HashParams }

InitChunks ==
    /\ cfg \in ChunkCircuits
    /\ pc = "construct"
    /\ InitPipeline
    /\ arg = <<>>
    /\ ret = <<>>

SpecChunks == InitChunks /\ [][Next]_vars

\* the little-endian value of a sequence of bit cells
LittleEndianValue(cells) ==
    WeightedSum(Vals(cells), [k \in 1..Len(cells) |-> Pow2(k - 1)])

\* the groups that hold the permuted bit at position k (from 1)
GroupsOfBit(k) ==
    {g \in 0..(Len(joint_inputs) - 1) : g * NumBitSize < k /\ k <= (g + 1) * NumBitSize}

\* group g is the little-endian composition of the permuted bits
\* [g * n_bits, (g + 1) * n_bits)
GroupsAreContiguous ==
    \A g \in 0..(Len(joint_inputs) - 1) :
        /\ (g + 1) * NumBitSize <= Len(permuted_inputs)
        /\ joint_inputs[g + 1].val =
              LittleEndianValue(SubSeq(permuted_inputs, g * NumBitSize + 1,
                                       (g + 1) * NumBitSize))

\* C17 as stated: when predict has run to completion the permuted bits are
\* partitioned into n_inputs contiguous groups of n_bits with no remainder,
\* every bit in exactly one group.
C17_GroupsPartitionPermutedBits ==
    pc \in {"expose", "done"} =>
        /\ Len(permuted_inputs) % NumBitSize = 0
        /\ \A k \in 1..Len(permuted_inputs) : Cardinality(GroupsOfBit(k)) = 1
        /\ GroupsAreContiguous
        /\ Len(joint_inputs) = NInputs

\* what chunks_exact and the assertion on n_inputs do give: the whole
\* chunks, in order, as many as n_inputs, each bit in at most one group and
\* fewer than n_bits trailing bits in none
C17_GroupsAreWholeChunks ==
    pc \in {"hash", "lookup", "accumulate", "expose", "done"} =>
        /\ Len(joint_inputs) = Len(permuted_inputs) \div NumBitSize
        /\ Len(joint_inputs) = NInputs
        /\ GroupsAreContiguous
        /\ \A k \in 1..Len(permuted_inputs) :
              Cardinality(GroupsOfBit(k)) =
                  IF k <= Len(joint_inputs) * NumBitSize THEN 1 ELSE 0

\* three permuted bits in groups of two: one group, the third bit in none,
\* and the scores are exposed
C17_RemainderDropped ==
    /\ pc = "done"
    /\ Len(permuted_inputs) = 3
    /\ NumBitSize = 2
    /\ Len(joint_inputs) = 1
    /\ GroupsOfBit(3) = {}
    /\ Len(result) >= 1
    /\ Cardinality(instance) = Len(result)

\* eight permuted bits in groups of two: four groups
C17_EvenlyDivided ==
    /\ pc = "done"
    /\ Len(permuted_inputs) = 8
    /\ NumBitSize = 2
    /\ Len(joint_inputs) = 4
    /\ \E g \in 1..4 : joint_inputs[g].val = 2

-----------------------------------------------------------------------------
(* The cache of intensity cells of predict                                  *)

Pixels == {<<x, y>> : x \in 0..(Width - 1), y \in 0..(Height - 1)}

PixelOfBit(k) == <<FirstIndexOf(k), SecondIndexOf(k)>>

\* the planes whose iteration on the pixel is done and had a non-zero
\* threshold
ComparedPlanes(pixel) ==
    {z \in 0..(BitPlanes - 1) :
        /\ BitPosition(pixel[1], pixel[2], z) < Len(bit_cells)
        /\ cfg.binarization_thresholds[pixel[1]][pixel[2]][z] # 0}

\* the positions already in bit_cells that compared the pixel with a
\* non-zero threshold
ComparedBits(pixel) ==
    {BitPosition(pixel[1], pixel[2], z) : z \in ComparedPlanes(pixel)}

\* the first of them: the lowest plane with a non-zero threshold
FirstCompared(pixel) ==
    BitPosition(pixel[1], pixel[2],
                CHOOSE z \in ComparedPlanes(pixel) : \A n \in ComparedPlanes(pixel) : z <= n)

WitnessOps == {n \in 1..Len(ops) : ops[n][1] = "greater_than_witness"}

CacheHoldsFirstCells ==
    /\ DOMAIN intensity_cells = {pixel \in Pixels : ComparedPlanes(pixel) # {}}
    /\ Cardinality(WitnessOps) = Cardinality(DOMAIN intensity_cells)
    /\ \A p, q \in DOMAIN intensity_cells :
          p # q => intensity_cells[p].id # intensity_cells[q].id
    /\ \A pixel \in DOMAIN intensity_cells :
          /\ intensity_cells[pixel].tag = <<"intensity", pixel[1], pixel[2]>>
          /\ intensity_cells[pixel].val = cfg.image[pixel[1]][pixel[2]]
          /\ intensity_cells[pixel].id = bit_cells[FirstCompared(pixel) + 1].id - 1
    /\ \A k \in 0..(Len(bit_cells) - 1) :
          IF ThresholdOfBit(k) = 0
          THEN OpOfBit(k) = <<"assign_constant", 1>>
          ELSE IF k = FirstCompared(PixelOfBit(k))
          THEN OpOfBit(k) = <<"greater_than_witness", ThresholdOfBit(k) - 1>>
          ELSE OpOfBit(k) = <<"greater_than_copy", intensity_cells[PixelOfBit(k)].id,
                                ThresholdOfBit(k) - 1>>
    /\ pc \in {"compose", "hash", "lookup", "accumulate", "expose", "done"} =>
          Cardinality(DOMAIN intensity_cells) =
              Cardinality({pixel \in Pixels : \E z \in 0..(BitPlanes - 1) :
                              cfg.binarization_thresholds[pixel[1]][pixel[2]][z] # 0})

\* a step of predict on the cache: entries are kept as they are, at most one
\* is added, and an iteration on a zero threshold leaves the cache alone
CacheStep ==
    /\ \A pixel \in DOMAIN intensity_cells :
          /\ pixel \in DOMAIN intensity_cells'
          /\ intensity_cells'[pixel] = intensity_cells[pixel]
    /\ Cardinality(DOMAIN intensity_cells') <= Cardinality(DOMAIN intensity_cells) + 1
    /\ intensity_cells' # intensity_cells =>
          /\ pc = "binarize"
          /\ DOMAIN intensity_cells' = DOMAIN intensity_cells \cup {<<li, lj>>}
          /\ cfg.binarization_thresholds[li][lj][lb] # 0
          /\ ops' = Append(ops, <<"greater_than_witness",
                                  cfg.binarization_thresholds[li][lj][lb] - 1>>)

\* C18: the cache holds at most one intensity cell per pixel, created by the
\* greater_than_witness of the first plane with a non-zero threshold and
\* never replaced; later non-zero planes use greater_than_copy on that cell;
\* zero-threshold planes use the constant and leave the cache alone; the
\* fresh intensity cells are as many as the pixels with a non-zero threshold.
C18_OneIntensityCellPerPixel == []CacheHoldsFirstCells /\ [][CacheStep]_vars

\* pixel (0,0): threshold 0 on plane 0, its cell created on plane 1;
\* pixel (1,0): created on plane 0 and copied on plane 1
C18_Witness ==
    /\ pc = "done"
    /\ BitPlanes = 2 /\ Width = 2
    /\ cfg.binarization_thresholds[0][0][0] = 0
    /\ <<0, 0>> \in DOMAIN intensity_cells
    /\ FirstCompared(<<0, 0>>) = BitPosition(0, 0, 1)
    /\ FirstCompared(<<1, 0>>) = BitPosition(1, 0, 0)
    /\ OpOfBit(BitPosition(1, 0, 1)) =
          <<"greater_than_copy", intensity_cells[<<1, 0>>].id, 255>>

-----------------------------------------------------------------------------
(* The order of the binarized bits and their permutation                    *)

\* the bit at every position is the one of the plane and pixel that the
\* order b, i, j assigns to the position
BitsInLoopOrder ==
    /\ \A k \in 0..(Len(bit_cells) - 1) :
          /\ bit_cells[k + 1].tag[2] = PlaneOf(k)
          /\ bit_cells[k + 1].tag[3] = FirstIndexOf(k)
          /\ bit_cells[k + 1].tag[4] = SecondIndexOf(k)
          /\ k = BitPosition(FirstIndexOf(k), SecondIndexOf(k), PlaneOf(k))
    /\ \A z \in 0..(BitPlanes - 1) : \A x \in 0..(Width - 1) : \A y \in 0..(Height - 1) :
          BitPosition(x, y, z) < Len(bit_cells) =>
              /\ bit_cells[BitPosition(x, y, z) + 1].tag[2] = z
              /\ bit_cells[BitPosition(x, y, z) + 1].tag[3] = x
              /\ bit_cells[BitPosition(x, y, z) + 1].tag[4] = y
              /\ bit_cells[BitPosition(x, y, z) + 1].val =
                    BinarizeBit(cfg.image[x][y], cfg.binarization_thresholds[x][y][z])

PermutedIsRelabeling ==
    pc \in {"compose", "hash", "lookup", "accumulate", "expose", "done"} =>
        /\ Len(bit_cells) = BitPlanes * Width * Height
        /\ Len(permuted_inputs) = Len(cfg.input_permutation)
        /\ \A k \in 1..Len(permuted_inputs) :
              permuted_inputs[k] = bit_cells[cfg.input_permutation[k] + 1]

\* the step from the binarization loop to the composition assigns no cell
\* and issues no operation
PermuteStep ==
    (pc = "binarize" /\ pc' = "compose") =>
        /\ nextCell' = nextCell
        /\ ops' = ops
        /\ bit_cells' = bit_cells
        /\ intensity_cells' = intensity_cells

\* C19: the bit of plane b and pixel (i, j) is at position
\* b * width * height + i * height + j of the binarized bits; permuted
\* position k holds the very cell at position perm[k]; the permutation
\* assigns no witness and adds no constraint, and the permuted sequence is as
\* long as the permutation.
C19_BitOrderAndPermutation ==
    /\ [](BitsInLoopOrder /\ PermutedIsRelabeling)
    /\ [][PermuteStep]_vars

\* two planes of a 2 x 1 image, rotated: the first permuted cell is the bit
\* at position 1, the bit of plane 0 and pixel (1,0)
C19_Witness ==
    /\ pc = "done"
    /\ BitPlanes = 2 /\ Width = 2 /\ Height = 1
    /\ cfg.input_permutation = <<1, 2, 3, 0>>
    /\ permuted_inputs[1] = bit_cells[2]
    /\ bit_cells[2].tag[2] = 0 /\ bit_cells[2].tag[3] = 1 /\ bit_cells[2].tag[4] = 0
    /\ bit_cells[BitPosition(1, 0, 1) + 1] = permuted_inputs[3]
    /\ permuted_inputs[4] = bit_cells[1]

-----------------------------------------------------------------------------
(* decompose_word on words below 2^31, with few windows of few bits, the    *)
(* windows of its test, and windows that reach or pass the 256 bits of      *)
(* to_le_bits                                                               *)

MaxWord == 12

MaxWindows == 3

MaxWindowBits == 3

\* 0xabcdef
TestWord == 11259375

\* 0xdef
TestWindowLow == 3567

\* 0xabc
TestWindowHigh == 2748

Words == (0..MaxWord) \cup {TestWord, Pow2(30) + 5}

\* <<num_windows, window_num_bits>>
WindowShapes ==
    {<<n, b>> : n \in 0..MaxWindows, b \in 0..MaxWindowBits}
        \cup {<<1, 10>>, <<2, 12>>, <<3, 12>>, <<ReprBits, 1>>, <<ReprBits + 1, 1>>,
              <<ReprBits \div 2, 2>>, <<ReprBits \div 2 + 1, 2>>, <<86, 3>>}

InitDecompose ==
    /\ \E word \in Words : \E shape \in WindowShapes :
          arg = [word |-> word, num_windows |-> shape[1], window_num_bits |-> shape[2]]
    /\ ret = <<>>
    /\ pc = "call"
    /\ cfg = <<>>
    /\ InitPipeline

\* decompose_word; chunks_exact panics on a chunk size of 0
DecomposeWordCall ==
    /\ pc = "call"
    /\ IF arg.window_num_bits = 0
       THEN /\ pc' = "aborted"
            /\ ret' = <<>>
       ELSE /\ pc' = "returned"
            /\ ret' = DecomposeWord(arg.word, arg.num_windows, arg.window_num_bits)
    /\ UNCHANGED <<pipelineVarsButPc, arg>>

SpecDecompose == InitDecompose /\ [][DecomposeWordCall]_vars

\* floor(word / 2^n) and word mod 2^n for a word below 2^31
ShiftRight(word, n) == IF n >= 31 THEN 0 ELSE word \div Pow2(n)

ModPow2(word, n) == IF n >= 31 THEN word ELSE word % Pow2(n)

RECURSIVE Recombine(_, _, _, _)
\* the sum of windows[k] * 2^((k - 1) * window_num_bits) for k in first..last
Recombine(windows, first, last, window_num_bits) ==
    IF first > last THEN 0
    ELSE IF first = last
    THEN (IF windows[first] = 0 THEN 0
          ELSE windows[first] * Pow2((first - 1) * window_num_bits))
    ELSE LET mid == (first + last) \div 2
         IN  Recombine(windows, first, mid, window_num_bits)
                 + Recombine(windows, mid + 1, last, window_num_bits)

\* window k (from 0) is floor(word / 2^(k * b)) mod 2^b, and the windows
\* recombine to word mod 2^(number of windows * b)
WindowsOfWord ==
    /\ \A k \in 0..(Len(ret) - 1) :
          ret[k + 1] = ModPow2(ShiftRight(arg.word, k * arg.window_num_bits),
                               arg.window_num_bits)
    /\ Recombine(ret, 1, Len(ret), arg.window_num_bits) =
          ModPow2(arg.word, Len(ret) * arg.window_num_bits)
    /\ (arg.word = TestWord /\ arg.num_windows = 2 /\ arg.window_num_bits = 12)
          => ret = <<TestWindowLow, TestWindowHigh>>

\* C20 as stated: decompose_word returns exactly num_windows windows, window
\* k being floor(word / 2^(k * window_num_bits)) mod 2^window_num_bits.
C20_ExactlyNumWindows ==
    pc = "returned" => Len(ret) = arg.num_windows /\ WindowsOfWord

\* C20 amended: for window_num_bits >= 1 decompose_word returns num_windows
\* windows when num_windows * window_num_bits is at most the 256 bits of the
\* representation, and otherwise only the floor(256 / window_num_bits) whole
\* windows of those bits; the windows returned are least significant first,
\* window k = floor(word / 2^(k * b)) mod 2^b, and recombine to the word
\* modulo 2^(number of windows returned * b); window_num_bits = 0 panics.
C20_WindowsWithinRepresentation ==
    /\ pc = "aborted" <=> (pc # "call" /\ arg.window_num_bits = 0)
    /\ pc = "returned" =>
          /\ Len(ret) = IF arg.num_windows * arg.window_num_bits <= ReprBits
                        THEN arg.num_windows
                        ELSE ReprBits \div arg.window_num_bits
          /\ WindowsOfWord

\* the test of the source: 0xabcdef in 2 windows of 12 bits
C20_Witness ==
    /\ pc = "returned"
    /\ arg = [word |-> TestWord, num_windows |-> 2, window_num_bits |-> 12]
    /\ ret = <<TestWindowLow, TestWindowHigh>>

\* 257 windows of 1 bit: 256 are returned
C20_FewerWindows ==
    /\ pc = "returned"
    /\ arg.num_windows = ReprBits + 1
    /\ arg.window_num_bits = 1
    /\ Len(ret) = ReprBits

\* bits above the windows are ignored
C20_HighBitsIgnored ==
    /\ pc = "returned"
    /\ arg.word = Pow2(30) + 5
    /\ arg.num_windows = 2 /\ arg.window_num_bits = 1
    /\ ret = <<1, 0>>

====
